---- MODULE Spec2Model ----
(***************************************************************************)
(* Wound-care simulation backend: the step lattice and action validator    *)
(* (app/core/state_machine.py), the evaluation coordinator                 *)
(* (app/core/coordinator.py), the session manager                          *)
(* (app/services/session_manager.py) and the /session/step handler         *)
(* (app/main.py).                                                          *)
(*                                                                         *)
(* Python values are modelled as follows.                                  *)
(*  - A call outcome is a record: Return(v) or Raise(exceptionName).       *)
(*  - Step members are the strings "Step.HISTORY", ...; their .value is    *)
(*    the lower-case string stored in a session ("history", ...).          *)
(*  - A dict is a function; a missing key is a key outside its DOMAIN.     *)
(*  - Scores and confidences are fixed-point integers in thousandths        *)
(*    (250 is 0.25); a rounded final score is an integer in hundredths.    *)
(*    The score inputs are multiples of 0.125, which are exact as binary   *)
(*    floats, so statistics.mean and round(x, 2) are modelled exactly.     *)
(***************************************************************************)
EXTENDS Integers, Sequences, FiniteSets, TLC

\* ------------------------------------------------------------------ bounds
\* longest verdict batch handed to coordinate in CoordSpec
MaxBatch == 2
\* sessions created in one run of Spec
MaxSessions == 2
\* sessions created in one run of SeqSpec
MaxSeqSessions == 1
\* request threads of the /session/step handler that may overlap in Spec
MaxThreads == 2
\* /session/step requests received in one run of Spec
MaxRequests == 2
\* /session/step requests received, one after the other, in one run of SeqSpec
MaxSeqRequests == 5
\* SessionManager.advance_step calls in one run of SeqSpec
MaxAdvanceCalls == 1
\* number of successive next_step applications followed in LatticeSpec
MaxChain == 6
\* create_session calls that can overlap in RaceSpec
MaxCreators == 2
\* create_session calls made in one run of RaceSpec
MaxCreateCalls == 2
\* /session/step requests received in one run of RaceSpec
MaxRaceRequests == 2
\* /session/step requests received in one run of StepRaceSpec
MaxStepRaceRequests == 3
\* sessions (runs) created in one run of TwinSpec
MaxTwinRuns == 2
\* /session/step requests received, one after the other, in one run of TwinSpec
MaxTwinRequests == 10
\* sessions created in one run of ApiSpec
MaxApiSessions == 2
\* /session/step requests received, one after the other, in one run of ApiSpec
MaxApiRequests == 1
\* longest batch handed to EvaluationService.aggregate_evaluations in ServiceSpec
MaxServiceBatch == 2
\* /session/step requests received, one after the other, in one run of ServiceSpec
MaxServiceRequests == 1

\* ------------------------------------------------------- python outcomes
Return(v) == [kind |-> "return", value |-> v]
Raise(e) == [kind |-> "raise", value |-> e]

\* a Python object tagged with its type, for values whose type decides
\* whether float(...) succeeds
Float(x) == [type |-> "float", val |-> x]
NoneObject == [type |-> "NoneType", val |-> 0]

\* dict.get(key, default)
Get(d, key, default) == IF key \in DOMAIN d THEN d[key] ELSE default

\* ------------------------------------------------------------ Step lattice
Step == {"Step.HISTORY", "Step.ASSESSMENT", "Step.CLEANING", "Step.DRESSING", "Step.COMPLETED"}

\* Step.X.value
StepValue(s) ==
    CASE s = "Step.HISTORY" -> "history"
      [] s = "Step.ASSESSMENT" -> "assessment"
      [] s = "Step.CLEANING" -> "cleaning"
      [] s = "Step.DRESSING" -> "dressing"
      [] s = "Step.COMPLETED" -> "completed"

\* Step(value): the member with that value, ValueError when there is none
StepOf(v) ==
    IF \E s \in Step : StepValue(s) = v
    THEN Return(CHOOSE s \in Step : StepValue(s) = v)
    ELSE Raise("ValueError")

VALID_TRANSITIONS ==
    [s \in {"Step.HISTORY", "Step.ASSESSMENT", "Step.CLEANING", "Step.DRESSING"} |->
        CASE s = "Step.HISTORY" -> "Step.ASSESSMENT"
          [] s = "Step.ASSESSMENT" -> "Step.CLEANING"
          [] s = "Step.CLEANING" -> "Step.DRESSING"
          [] s = "Step.DRESSING" -> "Step.COMPLETED"]

\* faulty variant: the terminal step wraps around to the first one
next_step_wraps(current_step) ==
    IF current_step \notin Step
    THEN Raise("ValueError")
    ELSE IF current_step = "Step.COMPLETED"
         THEN Return("Step.HISTORY")
         ELSE Return(VALID_TRANSITIONS[current_step])

\* faulty variant: the table sends HISTORY to CLEANING, skipping ASSESSMENT
next_step_skips(current_step) ==
    IF current_step \notin DOMAIN VALID_TRANSITIONS
    THEN Raise("ValueError")
    ELSE IF current_step = "Step.HISTORY"
         THEN Return("Step.CLEANING")
         ELSE Return(VALID_TRANSITIONS[current_step])

next_step(current_step) ==
    IF current_step \notin DOMAIN VALID_TRANSITIONS
    THEN Raise("ValueError")
    ELSE Return(VALID_TRANSITIONS[current_step])

mapping ==
    [s \in Step |->
        CASE s = "Step.HISTORY" -> {"voice_transcript", "question_asked"}
          [] s = "Step.ASSESSMENT" -> {"mcq_answer", "visual_assessment"}
          [] s = "Step.CLEANING" -> {"action_handwash", "action_clean", "pick_material"}
          [] s = "Step.DRESSING" -> {"action_dress", "action_secure_dressing"}
          [] s = "Step.COMPLETED" -> {}]

\* faulty variant: one vocabulary shared by every step that has one
validate_action_any_stage(step, event_type) ==
    Return(step \in Step /\ step # "Step.COMPLETED"
           /\ \E s \in Step : event_type \in mapping[s])

\* faulty variant: mapping[step] instead of mapping.get(step, set())
validate_action_subscript(step, event_type) ==
    IF step \in DOMAIN mapping
    THEN Return(event_type \in mapping[step])
    ELSE Raise("KeyError")

validate_action(step, event_type) ==
    LET allowed == Get(mapping, step, {})
    IN  Return(event_type \in allowed)

\* inputs of the lattice functions: the five members, and values that are
\* not members (a bare value string, an unheard-of name, None)
StepInputs == Step \cup {"history", "triage", "None"}

EventInputs ==
    {"voice_transcript", "question_asked", "mcq_answer", "visual_assessment",
     "action_handwash", "action_clean", "pick_material", "action_dress",
     "action_secure_dressing"}
    \cup {"voice", "Voice_Transcript", "mcq", ""}

\* ------------------------------------------------- evaluation coordinator
\* float(obj): a float converts to itself, None raises TypeError
FloatOf(obj) == IF obj.type = "float" THEN Return(obj.val) ELSE Raise("TypeError")

RECURSIVE Sum(_)
Sum(scores) == IF scores = <<>> THEN 0 ELSE Head(scores) + Sum(Tail(scores))

\* statistics.mean(scores): the exact quotient, kept as numerator and
\* denominator (thousandths)
mean(scores) == [num |-> Sum(scores), den |-> Len(scores)]

\* faulty variant: round(x, 2) replaced by truncation to two decimals
round2_truncates(m) == m.num \div (10 * m.den)

\* round(x, 2) of a non-negative exactly represented x: nearest hundredth,
\* a tie going to the even one
round2(m) ==
    LET unit == 10 * m.den
        q == m.num \div unit
        r == m.num % unit
    IN  IF 2 * r > unit \/ (2 * r = unit /\ q % 2 = 1) THEN q + 1 ELSE q

\* faulty variant: the parts are put together without the separator
RECURSIVE Join_no_separator(_, _)
Join_no_separator(parts, sep) ==
    IF parts = <<>> THEN ""
    ELSE parts[1] \o Join_no_separator(Tail(parts), sep)

\* separator.join(parts)
RECURSIVE Join(_, _)
Join(parts, sep) ==
    IF parts = <<>> THEN ""
    ELSE IF Len(parts) = 1 THEN parts[1]
    ELSE parts[1] \o sep \o Join(Tail(parts), sep)

\* faulty variant: a key that is already set keeps its first value
DictSet_first_wins(d, key, v) ==
    [k \in DOMAIN d \cup {key} |-> IF k \in DOMAIN d THEN d[k] ELSE v]

\* confidences[agent] = confidence
DictSet(d, key, v) == [k \in DOMAIN d \cup {key} |-> IF k = key THEN v ELSE d[k]]

EmptyDict == [k \in {} |-> 0]

\* faulty variant: an item the list already holds is not added again
RECURSIVE extend_dedup(_, _)
extend_dedup(list, items) ==
    IF items = <<>> THEN list
    ELSE extend_dedup(IF \E i \in 1..Len(list) : list[i] = Head(items)
                      THEN list ELSE Append(list, Head(items)),
                      Tail(items))

\* list.extend(items)
extend(list, items) == list \o items

\* the body of the for loop of coordinate, applied to the verdicts in order;
\* acc.raised records the exception that float(score) ended the loop with
RECURSIVE CoordinateLoop(_, _)
CoordinateLoop(evaluations, acc) ==
    IF evaluations = <<>> \/ acc.raised # "" THEN acc
    ELSE LET ev == Head(evaluations)
             score == FloatOf(Get(ev, "score", Float(0)))
             agent == Get(ev, "agent", "unknown")
             suggested == Get(ev, "suggested_actions", <<>>)
             rationale == Get(ev, "rationale", "")
         IN  IF score.kind = "raise"
             THEN [acc EXCEPT !.raised = score.value]
             ELSE CoordinateLoop(Tail(evaluations),
                    [raised |-> "",
                     scores |-> Append(acc.scores, score.value),
                     confidences |-> DictSet(acc.confidences, agent, Get(ev, "confidence", 0)),
                     actions |-> IF suggested # <<>> THEN extend(acc.actions, suggested)
                                 ELSE acc.actions,
                     rationales |-> IF rationale # ""
                                    THEN Append(acc.rationales, "[" \o agent \o "] " \o rationale)
                                    ELSE acc.rationales])

coordinate(evaluations) ==
    IF evaluations = <<>>
    THEN Return([final_score |-> 0, final_feedback |-> "No evaluations provided",
                 actions |-> <<>>])
    ELSE LET acc == CoordinateLoop(evaluations,
                        [raised |-> "", scores |-> <<>>, confidences |-> EmptyDict,
                         actions |-> <<>>, rationales |-> <<>>])
         IN  IF acc.raised # "" THEN Raise(acc.raised)
             ELSE Return([final_score |-> round2(mean(acc.scores)),
                          final_feedback |-> IF acc.rationales # <<>>
                                             THEN Join(acc.rationales, " | ")
                                             ELSE "No feedback",
                          actions |-> acc.actions,
                          confidences |-> acc.confidences])

\* faulty variant: actions is the first verdict's own list instead of a new
\* one, so extend writes the other verdicts' actions into the batch
coordinate_leaves_aliased(evaluations) ==
    LET out == coordinate(evaluations)
    IN  IF /\ evaluations # <<>>
           /\ out.kind = "return"
           /\ Get(evaluations[1], "suggested_actions", <<>>) # <<>>
        THEN [evaluations EXCEPT ![1] = [@ EXCEPT !.suggested_actions = out.value.actions]]
        ELSE evaluations

\* the batch as a call of coordinate leaves it: scores, actions, rationales
\* and confidences are new objects, the verdicts are only read (.get) and
\* extend copies the items of a verdict's list, so the batch is as it was
coordinate_leaves(evaluations) == evaluations

\* verdict inputs: every combination of a few values per key, and verdicts
\* with keys missing or with a score that is not a number
Scores == {0, 1000}
Confidences == {500, 1000}

FullVerdicts ==
    {[agent |-> a, score |-> Float(s), confidence |-> c, rationale |-> r,
      suggested_actions |-> sa] :
        a \in {"communication", "clinical"}, s \in Scores, c \in Confidences,
        r \in {"", "ok"}, sa \in {<<>>, <<"wash">>}}

PartialVerdicts ==
    {[agent |-> "knowledge"],
     [score |-> Float(125), rationale |-> "fine"],
     [agent |-> "knowledge", score |-> Float(250), confidence |-> 1000],
     [agent |-> "clinical", score |-> NoneObject, confidence |-> 500, rationale |-> "bad",
      suggested_actions |-> <<"redo">>],
     [agent |-> "communication", score |-> Float(500), rationale |-> "great",
      suggested_actions |-> <<"dry", "wash">>]}

Verdicts == FullVerdicts \cup PartialVerdicts

RECURSIVE SeqsUpTo(_, _)
SeqsUpTo(S, n) ==
    IF n = 0 THEN {<<>>}
    ELSE LET shorter == SeqsUpTo(S, n - 1)
         IN  shorter \cup {Append(b, v) : b \in {x \in shorter : Len(x) = n - 1}, v \in S}

\* the verdict batches of at most n verdicts
Batches(n) == SeqsUpTo(Verdicts, n)

NotCalled == [kind |-> "none", value |-> 0]

\* ------------------------------------------------------ evaluation service
\* an evaluator output as an object of a class: an EvaluatorResponse, or
\* the plain dict of a producer that skipped the schema
EvaluatorResponse(fields) == [class |-> "EvaluatorResponse", fields |-> fields]
PlainDict(fields) == [class |-> "dict", fields |-> fields]

\* Coordinator.aggregate(evaluations, current_step): the aggregate of the
\* verdicts' fields
Coordinator_aggregate(evaluations, current_step) ==
    coordinate([i \in 1..Len(evaluations) |-> evaluations[i].fields])

\* faulty variant: the outputs that are no EvaluatorResponse are dropped and
\* the rest is aggregated
aggregate_evaluations_skips_invalid(evaluator_outputs, step) ==
    LET valid == SelectSeq(evaluator_outputs, LAMBDA ev : ev.class = "EvaluatorResponse")
    IN  IF valid = <<>> THEN Raise("ValueError")
        ELSE Coordinator_aggregate(valid, step)

\* EvaluationService.aggregate_evaluations
aggregate_evaluations(evaluator_outputs, step) ==
    IF evaluator_outputs = <<>>
    THEN Raise("ValueError")
    ELSE IF \E i \in 1..Len(evaluator_outputs) :
                evaluator_outputs[i].class # "EvaluatorResponse"
    THEN Raise("TypeError")
    ELSE Coordinator_aggregate(evaluator_outputs, step)

\* no aggregate_evaluations call made yet
NoServiceCall == [evaluator_outputs |-> <<>>, step |-> "", result |-> NotCalled]

\* no call recorded yet in last_call
NoCall == [op |-> "none", arg |-> <<>>, result |-> ""]

\* ---------------------------------------------------------- session store
\* f"sess_{n}"
SessId(n) == <<"sess_", n>>

\* an id create_session never hands out
UnknownSessId == SessId(0)

ScenarioIds == {"scenario_1"}
StudentIds == {"stu_1"}

\* the dict create_session stores under the new id
NewSession(scenario_id, student_id) ==
    [scenario_id |-> scenario_id,
     student_id |-> student_id,
     current_step |-> StepValue("Step.HISTORY"),
     logs |-> <<>>]

\* keys /session/step reads and appends to that create_session above does not
\* set: the store main.py runs against (the one with add_log and
\* add_rag_result) is taken to start them empty
HandlerKeys == [events |-> <<>>, rag_results |-> <<>>]

\* faulty variant: the id comes from a counter that is never incremented
create_session_id_constant(store) == SessId(1)

\* faulty variant: the id is the number of sessions, not that number plus one
create_session_id_from_len(store) == SessId(Cardinality(DOMAIN store))

\* session_id = f"sess_{len(self.sessions)+1}"
create_session_id(store) == SessId(Cardinality(DOMAIN store) + 1)

\* self.sessions[session_id] = {...}
DictPut(store, key, v) == [k \in DOMAIN store \cup {key} |-> IF k = key THEN v ELSE store[k]]

\* session_manager.add_log(sid, entry): appends entry to the session's logs
add_log(store, sid, entry) == [store EXCEPT ![sid].logs = Append(@, entry)]

\* session_manager.add_rag_result(sid, entry): appends entry to the
\* session's retrieval results
add_rag_result(store, sid, entry) == [store EXCEPT ![sid].rag_results = Append(@, entry)]

\* a dict as a Python object (see NoneObject)
PyDict(d) == [type |-> "dict", val |-> d]

\* SessionManager.get_session: self.sessions.get(session_id)
get_session(store, session_id) ==
    IF session_id \in DOMAIN store THEN PyDict(store[session_id]) ELSE NoneObject

\* faulty variant: an event tagged like the last one is taken for a repeat and dropped
append_event_dedup(store, sid, entry) ==
    IF store[sid].events # <<>> /\ store[sid].events[Len(store[sid].events)].step = entry.step
    THEN store
    ELSE [store EXCEPT ![sid].events = Append(@, entry)]

\* session["events"].append(entry)
append_event(store, sid, entry) == [store EXCEPT ![sid].events = Append(@, entry)]

\* try: next_s = next_step(Step(cur_step)) / except Exception: next_s = None
NextOrNone(cur_step) ==
    LET member == StepOf(cur_step)
    IN  IF member.kind = "raise" THEN "None"
        ELSE LET n == next_step(member.value)
             IN  IF n.kind = "raise" THEN "None" ELSE StepValue(n.value)

\* number of calls counted in a per-session counter
RECURSIVE TotalCalls(_)
TotalCalls(counter) ==
    IF DOMAIN counter = {} THEN 0
    ELSE LET k == CHOOSE x \in DOMAIN counter : TRUE
         IN  counter[k] + TotalCalls([x \in DOMAIN counter \ {k} |-> counter[x]])

\* faulty variant: advance_step lets the ValueError of next_step escape
advance_step_raises(store, session_id) ==
    IF session_id \notin DOMAIN store
    THEN [store |-> store, result |-> Return("None")]
    ELSE LET n == NextOrNone(store[session_id].current_step)
         IN  IF n = "None"
             THEN [store |-> store, result |-> Raise("ValueError")]
             ELSE [store |-> [store EXCEPT ![session_id].current_step = n],
                   result |-> Return(n)]

\* SessionManager.advance_step: the store it leaves and what it returns
advance_step(store, session_id) ==
    IF session_id \notin DOMAIN store
    THEN [store |-> store, result |-> Return("None")]
    ELSE LET current_step == StepOf(store[session_id].current_step)
         IN  IF current_step.kind = "raise"
             THEN [store |-> store, result |-> current_step]
             ELSE LET new_step == next_step(current_step.value)
                  IN  IF new_step.kind = "raise"
                      THEN [store |-> store, result |-> Return("None")]
                      ELSE [store |-> [store EXCEPT ![session_id].current_step =
                                            StepValue(new_step.value)],
                            result |-> Return(StepValue(new_step.value))]

\* ------------------------------------------------------- /session/start
\* ScenarioMetadata of a scenario the scenario source has
ScenarioMetadata(scenario_id) ==
    [scenario_id |-> scenario_id, scenario_title |-> "Wound care",
     patient_history |-> "history", wound_details |-> "wound"]

\* load_scenario(scenario_id): the metadata, None for a scenario the source
\* does not have, or an exception of the source
LoadOutcomes(scenario_id) ==
    {Return(PyDict(ScenarioMetadata(scenario_id))), Return(NoneObject),
     Raise("ConnectionError")}

\* str(HTTPException(status_code, detail)): "status: detail" where
\* HTTPException defines __str__, the empty string where it does not
HTTPExceptionStr(status_code, detail) == {status_code \o ": " \o detail, ""}

\* the arguments of create_session and of /session/start in ApiSpec
ApiCreateArgs ==
    {[scenario_id |-> "scenario_1", student_id |-> "stu_1"],
     [scenario_id |-> "scenario_x", student_id |-> "student_99"]}

\* ------------------------------------------------- /session/step payloads
\* the two verdicts of a well-formed submission and a verdict whose score
\* is not a number
VerdictCommunication ==
    [agent |-> "communication", score |-> Float(750), confidence |-> 500, rationale |-> "ok"]
VerdictKnowledge ==
    [agent |-> "knowledge", score |-> Float(250), confidence |-> 1000, rationale |-> "fine"]
VerdictNoScore ==
    [agent |-> "clinical", score |-> NoneObject, confidence |-> 500, rationale |-> "bad"]

\* EvalInput of test_api_step_flow style requests, without the session_id
SeqPayloadBodies ==
    {[evaluator_outputs |-> <<VerdictCommunication, VerdictKnowledge>>, user_input |-> "pain?"],
     [evaluator_outputs |-> <<VerdictNoScore>>, user_input |-> ""]}

\* EvalInput without its session_id: evaluator_outputs and user_input ("" is
\* no input); the step field of the payload is never read by the handler
PayloadBodies ==
    {[evaluator_outputs |-> <<>>, user_input |-> ""],
     [evaluator_outputs |-> <<VerdictCommunication, VerdictKnowledge>>, user_input |-> "pain?"],
     [evaluator_outputs |-> <<VerdictNoScore>>, user_input |-> ""]}

\* EvalInput bodies of ApiSpec: no verdicts, the well-formed submission, and
\* batches that hold a verdict whose score is not a number next to a
\* well-formed one, after it and before it
ApiPayloadBodies ==
    {[evaluator_outputs |-> <<>>, user_input |-> ""],
     [evaluator_outputs |-> <<VerdictCommunication, VerdictKnowledge>>, user_input |-> "pain?"],
     [evaluator_outputs |-> <<VerdictCommunication, VerdictNoScore>>, user_input |-> "pain?"],
     [evaluator_outputs |-> <<VerdictNoScore, VerdictKnowledge>>, user_input |-> ""]}

NoPayload == [session_id |-> UnknownSessId, evaluator_outputs |-> <<>>, user_input |-> ""]

\* rag_context: None, or the list retrieve_context returned ([] after a failure)
RagNone == [is_none |-> TRUE, chunks |-> <<>>]
RagList(chunks) == [is_none |-> FALSE, chunks |-> chunks]
RetrievedChunks == <<"chunk">>

NoAgg == [final_score |-> 0, final_feedback |-> "", actions |-> <<>>]
NoResponse == [status |-> 0]

\* a request thread between two requests
IdleThread ==
    [pc |-> "idle", payload |-> NoPayload, cur_step |-> "", rag_context |-> RagNone,
     agg |-> NoAgg, detached |-> FALSE]

\* res as built at the end of session_step
StepResponse(t, next_s) ==
    LET base == [status |-> 200, session_id |-> t.payload.session_id,
                 current_step |-> t.cur_step, evaluation |-> t.agg]
        withNext == IF next_s # "None" THEN base @@ [next_step |-> next_s] ELSE base
    IN  IF t.rag_context.chunks # <<>>
        THEN withNext @@ [rag_context |-> t.rag_context.chunks]
        ELSE withNext

Threads == 1..MaxThreads

\* a create_session call that has not started, and the calls that can overlap
IdleCreator == [pc |-> "idle", session_id |-> UnknownSessId, scenario_id |-> "", student_id |-> ""]

Creators == 1..MaxCreators

\* ------------------------------------------------------------------ state
VARIABLES
    sessions,    \* SessionManager.sessions: session id -> session dict
    threads,     \* request thread -> position in session_step and its locals
    response,    \* the response session_step returned last
    nrequests,   \* /session/step requests received so far
    completed,   \* session id -> /session/step requests answered with 200
    adv_calls,   \* session id -> advance_step calls made
    adv_result,  \* outcome of the last advance_step call
    created,     \* what each create_session call so far was given and returned
    last_call,   \* the last session lookup: the operation, its argument, its result
    creating,    \* create_session call in progress -> its position and its locals
    l_step,      \* LatticeSpec: the step argument
    l_event,     \* LatticeSpec: the event_type argument
    l_next,      \* LatticeSpec: outcome of next_step(l_step)
    l_valid,     \* LatticeSpec: outcome of validate_action(l_step, l_event)
    l_chain,     \* LatticeSpec: outcomes of successive next_step calls from HISTORY
    c_batch,     \* CoordSpec: the verdict batch
    c_result,    \* CoordSpec: outcome of coordinate(c_batch)
    c_again,     \* CoordSpec: outcome of a second coordinate(c_batch)
    svc_call     \* the last aggregate_evaluations call: its arguments and outcome

sessionVars == <<sessions, threads, response, nrequests, completed, adv_calls, adv_result,
                 created, last_call, creating>>
latticeVars == <<l_step, l_event, l_next, l_valid, l_chain>>
coordVars == <<c_batch, c_result, c_again, svc_call>>
vars == <<sessionVars, latticeVars, coordVars>>

\* state after SessionManager() and before any request
SessionIdle ==
    /\ sessions = EmptyDict
    /\ threads = [t \in Threads |-> IdleThread]
    /\ response = NoResponse
    /\ nrequests = 0
    /\ completed = EmptyDict
    /\ adv_calls = EmptyDict
    /\ adv_result = NotCalled
    /\ created = <<>>
    /\ last_call = NoCall
    /\ creating = [c \in Creators |-> IdleCreator]

LatticeIdle ==
    /\ l_step = "Step.HISTORY"
    /\ l_event = ""
    /\ l_next = NotCalled
    /\ l_valid = NotCalled
    /\ l_chain = <<>>

CoordIdle ==
    /\ c_batch = <<>>
    /\ c_result = NotCalled
    /\ c_again = NotCalled
    /\ svc_call = NoServiceCall

\* ----------------------------------------------------------- LatticeSpec
LatticeInit ==
    /\ l_step \in StepInputs
    /\ l_event \in EventInputs
    /\ l_next = NotCalled
    /\ l_valid = NotCalled
    /\ l_chain = <<>>
    /\ CoordIdle
    /\ SessionIdle

CallNextStep ==
    /\ l_next.kind = "none"
    /\ l_next' = next_step(l_step)
    /\ UNCHANGED <<l_step, l_event, l_valid, l_chain, coordVars, sessionVars>>

CallValidateAction ==
    /\ l_valid.kind = "none"
    /\ l_valid' = validate_action(l_step, l_event)
    /\ UNCHANGED <<l_step, l_event, l_next, l_chain, coordVars, sessionVars>>

\* the next of a run of successive calls: next_step(Step.HISTORY) first, then
\* next_step of the step the call before returned; a raise ends the run
ChainNextStep ==
    /\ Len(l_chain) < MaxChain
    /\ IF l_chain = <<>> THEN TRUE ELSE l_chain[Len(l_chain)].kind = "return"
    /\ l_chain' = Append(l_chain,
                    next_step(IF l_chain = <<>> THEN "Step.HISTORY"
                              ELSE l_chain[Len(l_chain)].value))
    /\ UNCHANGED <<l_step, l_event, l_next, l_valid, coordVars, sessionVars>>

LatticeNext == CallNextStep \/ CallValidateAction \/ ChainNextStep

LatticeSpec == LatticeInit /\ [][LatticeNext]_vars

\* ------------------------------------------------------------- CoordSpec
CoordInit ==
    /\ c_batch \in Batches(MaxBatch)
    /\ c_result = NotCalled
    /\ c_again = NotCalled
    /\ svc_call = NoServiceCall
    /\ LatticeIdle
    /\ SessionIdle

Coordinate ==
    /\ c_result.kind = "none"
    /\ c_result' = coordinate(c_batch)
    /\ c_batch' = coordinate_leaves(c_batch)
    /\ UNCHANGED <<c_again, svc_call, latticeVars, sessionVars>>

CoordinateAgain ==
    /\ c_result.kind # "none"
    /\ c_again.kind = "none"
    /\ c_again' = coordinate(c_batch)
    /\ c_batch' = coordinate_leaves(c_batch)
    /\ UNCHANGED <<c_result, svc_call, latticeVars, sessionVars>>

CoordNext == Coordinate \/ CoordinateAgain

CoordSpec == CoordInit /\ [][CoordNext]_vars

\* ------------------------------------------------- Spec and SeqSpec: actions
Init ==
    /\ SessionIdle
    /\ LatticeIdle
    /\ CoordIdle

\* SessionManager.create_session(scenario_id, student_id)
CreateSession(scenario_id, student_id, limit) ==
    /\ Cardinality(DOMAIN sessions) < limit
    /\ LET session_id == create_session_id(sessions)
       IN  /\ sessions' = DictPut(sessions, session_id,
                                  NewSession(scenario_id, student_id) @@ HandlerKeys)
           /\ completed' = DictPut(completed, session_id, 0)
           /\ adv_calls' = DictPut(adv_calls, session_id, 0)
           /\ created' = Append(created, [session_id |-> session_id,
                                           scenario_id |-> scenario_id,
                                           student_id |-> student_id])
    /\ UNCHANGED <<threads, response, nrequests, adv_result, last_call,
                   creating, latticeVars, coordVars>>

\* SessionManager.advance_step(session_id), called from outside the handler
AdvanceStep(session_id) ==
    /\ session_id \in DOMAIN sessions
    /\ TotalCalls(adv_calls) < MaxAdvanceCalls
    /\ LET out == advance_step(sessions, session_id)
       IN  /\ sessions' = out.store
           /\ adv_result' = out.result
    /\ adv_calls' = [adv_calls EXCEPT ![session_id] = @ + 1]
    /\ UNCHANGED <<threads, response, nrequests, completed, created, last_call,
                   creating, latticeVars, coordVars>>

\* start_session: load_scenario gave loaded; text is str(e) of the
\* HTTPException raised inside the try for a scenario that was not found
StartSession(scenario_id, student_id, loaded, text, limit) ==
    /\ last_call' = [op |-> "start_session", arg |-> <<"scenario", scenario_id>>,
                      result |-> IF loaded.kind = "raise" THEN loaded.value
                                 ELSE loaded.value.type]
    /\ IF loaded.kind = "raise"
       THEN /\ response' = [status |-> 500,
                             detail |-> "Failed to start session: " \o loaded.value]
            /\ UNCHANGED <<sessions, completed, adv_calls, created>>
       ELSE IF loaded.value.type = "NoneType"
       THEN /\ response' = [status |-> 500, detail |-> "Failed to start session: " \o text]
            /\ UNCHANGED <<sessions, completed, adv_calls, created>>
       ELSE /\ Cardinality(DOMAIN sessions) < limit
            /\ LET session_id == create_session_id(sessions)
                    scenario == loaded.value.val
               IN  /\ sessions' = DictPut(sessions, session_id,
                                          NewSession(scenario_id, student_id) @@ HandlerKeys)
                   /\ completed' = DictPut(completed, session_id, 0)
                   /\ adv_calls' = DictPut(adv_calls, session_id, 0)
                   /\ created' = Append(created, [session_id |-> session_id,
                                                   scenario_id |-> scenario_id,
                                                   student_id |-> student_id])
                   /\ response' =
                         [status |-> 200,
                          session_id |-> session_id,
                          current_step |-> StepValue("Step.HISTORY"),
                          scenario_summary |->
                             [scenario_id |-> Get(scenario, "scenario_id", "None"),
                              title |-> Get(scenario, "scenario_title", "None"),
                              patient_history |-> Get(scenario, "patient_history", "None"),
                              wound_details |-> Get(scenario, "wound_details", "None")]]
    /\ UNCHANGED <<threads, nrequests, adv_result, creating, latticeVars, coordVars>>

\* SessionManager.get_session(session_id), called from outside the handler
GetSession(session_id) ==
    /\ last_call' = [op |-> "get_session", arg |-> session_id,
                      result |-> get_session(sessions, session_id).type]
    /\ UNCHANGED <<sessions, threads, response, nrequests, completed, adv_calls,
                   adv_result, created, creating, latticeVars, coordVars>>

\* SessionManager.advance_step(session_id) for an id the store does not hold
AdvanceStepAbsent(session_id) ==
    /\ session_id \notin DOMAIN sessions
    /\ LET out == advance_step(sessions, session_id)
       IN  /\ sessions' = out.store
           /\ adv_result' = out.result
    /\ last_call' = [op |-> "advance_step", arg |-> session_id,
                      result |-> get_session(sessions, session_id).type]
    /\ UNCHANGED <<threads, response, nrequests, completed, adv_calls, created,
                   creating, latticeVars, coordVars>>

\* faulty variant: self.sessions is rebound to a dict that holds the new
\* session only
StoreSession_replaces_store(store, key, v) == [k \in {key} |-> v]

\* create_session lines 15-20: self.sessions[session_id] = {...}
StoreSession_put(store, key, v) == DictPut(store, key, v)

\* create_session line 14 in a call that other calls can overlap: the id is
\* computed from len(self.sessions); limit bounds the calls of a run
ComputeSessionId(c, scenario_id, student_id, limit) ==
    /\ creating[c].pc = "idle"
    /\ \A d \in Creators : d < c => creating[d].pc # "idle"
    /\ Len(created) + Cardinality({d \in Creators : creating[d].pc # "idle"}) < limit
    /\ creating' = [creating EXCEPT ![c] =
                      [pc |-> "store", session_id |-> create_session_id(sessions),
                       scenario_id |-> scenario_id, student_id |-> student_id]]
    /\ UNCHANGED <<sessions, threads, response, nrequests, completed, adv_calls,
                   adv_result, created, last_call, latticeVars, coordVars>>

\* create_session lines 15-21: the new dict is stored under the id computed
\* at line 14 and the id is returned. A /session/step request that holds the
\* dict stored under that id before keeps writing to that dict
StoreSession(c) ==
    /\ creating[c].pc = "store"
    /\ LET cr == creating[c]
       IN  /\ sessions' = StoreSession_put(sessions, cr.session_id,
                              NewSession(cr.scenario_id, cr.student_id) @@ HandlerKeys)
           /\ completed' = DictPut(completed, cr.session_id, 0)
           /\ adv_calls' = DictPut(adv_calls, cr.session_id, 0)
           /\ created' = Append(created, [session_id |-> cr.session_id,
                                           scenario_id |-> cr.scenario_id,
                                           student_id |-> cr.student_id])
           /\ threads' = [t \in Threads |->
                             IF threads[t].pc # "idle"
                                /\ threads[t].payload.session_id = cr.session_id
                             THEN [threads[t] EXCEPT !.detached = TRUE]
                             ELSE threads[t]]
    /\ creating' = [creating EXCEPT ![c] = IdleCreator]
    /\ UNCHANGED <<response, nrequests, adv_result, last_call, latticeVars, coordVars>>

InFlight(t) == threads[t].pc # "idle"

NoneInFlight == \A t \in Threads : ~InFlight(t)

\* session_step, lines 60-68 and 71-72: a request arrives and is given the
\* first free thread; get_session; 404 when the session is absent, else
\* cur_step is read. limit bounds the requests of a run; alone is TRUE when
\* requests are received one after the other
BeginStep(t, session_id, body, limit, alone) ==
    /\ ~InFlight(t)
    /\ \A u \in Threads : u < t => InFlight(u)
    /\ nrequests < limit
    /\ alone => NoneInFlight
    /\ nrequests' = nrequests + 1
    /\ IF session_id \notin DOMAIN sessions
       THEN /\ response' = [status |-> 404, detail |-> "Session not found"]
            /\ UNCHANGED threads
       ELSE /\ threads' = [threads EXCEPT ![t] =
                             [pc |-> IF body.user_input # "" THEN "rag" ELSE "coordinate",
                              payload |-> [session_id |-> session_id] @@ body,
                              cur_step |-> sessions[session_id].current_step,
                              rag_context |-> RagNone,
                              agg |-> NoAgg,
                              detached |-> FALSE]]
            /\ UNCHANGED response
    /\ last_call' = [op |-> "session_step", arg |-> session_id,
                      result |-> get_session(sessions, session_id).type]
    /\ UNCHANGED <<sessions, completed, adv_calls, adv_result, created,
                   creating, latticeVars, coordVars>>

\* lines 73-85: retrieve_context returned; its result is stored on the session
RetrieveOk(t) ==
    /\ threads[t].pc = "rag"
    /\ threads' = [threads EXCEPT ![t].pc = "coordinate",
                                  ![t].rag_context = RagList(RetrievedChunks)]
    /\ sessions' = add_rag_result(sessions, threads[t].payload.session_id,
                                  [step |-> threads[t].cur_step,
                                   query |-> threads[t].payload.user_input,
                                   results |-> RetrievedChunks])
    /\ UNCHANGED <<response, nrequests, completed, adv_calls, adv_result,
                   created, last_call, creating, latticeVars, coordVars>>

\* faulty variant: the exception of retrieve_context is not caught and ends
\* the request
RetrieveFail_aborts(t) ==
    /\ threads[t].pc = "rag"
    /\ threads' = [threads EXCEPT ![t] = IdleThread]
    /\ response' = [status |-> 500, detail |-> "Internal Server Error"]
    /\ UNCHANGED <<sessions, nrequests, completed, adv_calls, adv_result,
                   created, last_call, creating, latticeVars, coordVars>>

\* lines 86-88: retrieve_context raised; rag_context = []
RetrieveFail(t) ==
    /\ threads[t].pc = "rag"
    /\ threads' = [threads EXCEPT ![t].pc = "coordinate",
                                  ![t].rag_context = RagList(<<>>)]
    /\ UNCHANGED <<sessions, response, nrequests, completed, adv_calls, adv_result,
                   created, last_call, creating, latticeVars, coordVars>>

\* lines 91-102: coordinate; 500 when it raises, else add_log
CoordinateAndLog(t) ==
    /\ threads[t].pc = "coordinate"
    /\ LET th == threads[t]
           agg == coordinate(th.payload.evaluator_outputs)
       IN  IF agg.kind = "raise"
           THEN /\ threads' = [threads EXCEPT ![t] = IdleThread]
                /\ response' = [status |-> 500,
                                 detail |-> "Evaluation failed: " \o agg.value]
                /\ UNCHANGED sessions
           ELSE /\ threads' = [threads EXCEPT ![t].pc = "events", ![t].agg = agg.value]
                /\ UNCHANGED response
                /\ sessions' = add_log(sessions, th.payload.session_id,
                                       [step |-> th.cur_step,
                                        user_input |-> th.payload.user_input,
                                        evaluation |-> agg.value,
                                        rag_used |-> ~th.rag_context.is_none])
    /\ UNCHANGED <<nrequests, completed, adv_calls, adv_result, created, last_call,
                   creating, latticeVars, coordVars>>

\* faulty variant: the session advances only when the aggregate score is at
\* least 0.5
AppendEvent_score_gated(t) ==
    /\ threads[t].pc = "events"
    /\ LET th == threads[t]
           sid == th.payload.session_id
           next_s == IF th.agg.final_score < 50 THEN "None" ELSE NextOrNone(th.cur_step)
       IN  /\ sessions' = IF th.detached THEN sessions
                          ELSE append_event(sessions, sid,
                                            [step |-> th.cur_step, evaluation |-> th.agg])
           /\ IF next_s # "None"
              THEN /\ threads' = [threads EXCEPT ![t].pc = "advance"]
                   /\ UNCHANGED <<completed, response>>
              ELSE /\ threads' = [threads EXCEPT ![t] = IdleThread]
                   /\ response' = StepResponse(th, next_s)
                   /\ completed' = [completed EXCEPT ![sid] = @ + 1]
    /\ UNCHANGED <<nrequests, adv_calls, adv_result, created, last_call,
                   creating, latticeVars, coordVars>>

\* lines 105-111 (and 114-127 when there is no next step): next_step of the
\* step read at the start; session["events"].append. session is the dict
\* get_session returned at the start: when the store has since bound the id
\* to another dict, the append lands on the dict the store no longer holds
AppendEvent(t) ==
    /\ threads[t].pc = "events"
    /\ LET th == threads[t]
           sid == th.payload.session_id
           next_s == NextOrNone(th.cur_step)
       IN  /\ sessions' = IF th.detached THEN sessions
                          ELSE append_event(sessions, sid,
                                            [step |-> th.cur_step, evaluation |-> th.agg])
           /\ IF next_s # "None"
              THEN /\ threads' = [threads EXCEPT ![t].pc = "advance"]
                   /\ UNCHANGED <<completed, response>>
              ELSE /\ threads' = [threads EXCEPT ![t] = IdleThread]
                   /\ response' = StepResponse(th, next_s)
                   /\ completed' = [completed EXCEPT ![sid] = @ + 1]
    /\ UNCHANGED <<nrequests, adv_calls, adv_result, created, last_call,
                   creating, latticeVars, coordVars>>

\* lines 114-127 when there is a next step: session["current_step"] =
\* next_s.value (on the dict get_session returned at the start), and the
\* response
WriteStep(t) ==
    /\ threads[t].pc = "advance"
    /\ LET th == threads[t]
           sid == th.payload.session_id
           next_s == NextOrNone(th.cur_step)
       IN  /\ sessions' = IF th.detached THEN sessions
                          ELSE [sessions EXCEPT ![sid].current_step = next_s]
           /\ threads' = [threads EXCEPT ![t] = IdleThread]
           /\ response' = StepResponse(th, next_s)
           /\ completed' = [completed EXCEPT ![sid] = @ + 1]
    /\ UNCHANGED <<nrequests, adv_calls, adv_result, created, last_call,
                   creating, latticeVars, coordVars>>

\* the steps of session_step after the request was received
HandlerStep(t) ==
    \/ RetrieveOk(t)
    \/ RetrieveFail(t)
    \/ CoordinateAndLog(t)
    \/ AppendEvent(t)
    \/ WriteStep(t)

\* -------------------------------------------------------------------- Spec
\* the served application: sessions are created and /session/step requests
\* run concurrently (session_step is a sync handler, served from the thread
\* pool)
Next ==
    \/ \E sc \in ScenarioIds, st \in StudentIds : CreateSession(sc, st, MaxSessions)
    \/ \E t \in Threads, sid \in DOMAIN sessions \cup {UnknownSessId}, body \in PayloadBodies :
          BeginStep(t, sid, body, MaxRequests, FALSE)
    \/ \E t \in Threads : HandlerStep(t)

Spec == Init /\ [][Next]_vars

\* ----------------------------------------------------------------- SeqSpec
\* one caller: a request or a SessionManager call starts when the request
\* before it has been answered
SeqNext ==
    \/ NoneInFlight /\ \E sc \in ScenarioIds, st \in StudentIds :
                          CreateSession(sc, st, MaxSeqSessions)
    \/ NoneInFlight /\ \E sid \in DOMAIN sessions : AdvanceStep(sid)
    \/ \E sid \in DOMAIN sessions \cup {UnknownSessId}, body \in SeqPayloadBodies :
          BeginStep(1, sid, body, MaxSeqRequests, TRUE)
    \/ HandlerStep(1)

SeqSpec == Init /\ [][SeqNext]_vars

\* ---------------------------------------------------------------- RaceSpec
\* EvalInput bodies of RaceSpec: one well-formed submission with user input
RacePayloadBodies ==
    {[evaluator_outputs |-> <<VerdictCommunication, VerdictKnowledge>>, user_input |-> "pain?"]}

\* what the c-th of the overlapping /session/start requests asks for: the
\* first is of one student, the others of another
RaceCreateArgs(c) ==
    IF c = 1 THEN [scenario_id |-> "scenario_1", student_id |-> "stu_1"]
    ELSE [scenario_id |-> "scenario_1", student_id |-> "student_99"]

\* the served application with /session/start requests that overlap each
\* other and the /session/step requests (start_session and session_step are
\* sync handlers, served from the thread pool)
RaceNext ==
    \/ \E c \in Creators :
          ComputeSessionId(c, RaceCreateArgs(c).scenario_id, RaceCreateArgs(c).student_id,
                           MaxCreateCalls)
    \/ \E c \in Creators : StoreSession(c)
    \/ \E t \in Threads, sid \in DOMAIN sessions, body \in RacePayloadBodies :
          BeginStep(t, sid, body, MaxRaceRequests, FALSE)
    \/ \E t \in Threads : HandlerStep(t)

RaceSpec == Init /\ [][RaceNext]_vars

\* ------------------------------------------------------------ StepRaceSpec
\* one session and /session/step requests for it that overlap, more of them
\* than there are threads
StepRaceNext ==
    \/ \E sc \in ScenarioIds, st \in StudentIds : CreateSession(sc, st, MaxSeqSessions)
    \/ \E t \in Threads, sid \in DOMAIN sessions, body \in SeqPayloadBodies :
          BeginStep(t, sid, body, MaxStepRaceRequests, FALSE)
    \/ \E t \in Threads : HandlerStep(t)

StepRaceSpec == Init /\ [][StepRaceNext]_vars

\* ---------------------------------------------------------------- TwinSpec
\* the EvalInput bodies a session is sent in TwinSpec: the first session
\* created is the reference run and always gets the same batch, every other
\* session gets any of the batches
TwinPayloadBodies(sid) ==
    IF sid = SessId(1)
    THEN {[evaluator_outputs |-> <<VerdictCommunication, VerdictKnowledge>>,
           user_input |-> ""]}
    ELSE PayloadBodies

\* runs side by side: sessions that are sent stage submissions one after the
\* other, the next one always to a session that has had the fewest answered
TwinNext ==
    \/ NoneInFlight /\ \E sc \in ScenarioIds, st \in StudentIds :
                          CreateSession(sc, st, MaxTwinRuns)
    \/ \E sid \in DOMAIN sessions :
          /\ \A o \in DOMAIN sessions : completed[sid] <= completed[o]
          /\ \E body \in TwinPayloadBodies(sid) :
                BeginStep(1, sid, body, MaxTwinRequests, TRUE)
    \/ HandlerStep(1)

TwinSpec == Init /\ [][TwinNext]_vars

\* ----------------------------------------------------------------- ApiSpec
\* the session ids ApiSpec calls name: those create_session can hand out and
\* one it never does
ApiSessIds == {SessId(n) : n \in 0..MaxApiSessions}

\* one caller using every operation: SessionManager calls, /session/start and
\* /session/step, each started when the one before has returned
ApiNext ==
    \/ NoneInFlight /\ \E a \in ApiCreateArgs :
                          CreateSession(a.scenario_id, a.student_id, MaxApiSessions)
    \/ NoneInFlight /\ \E a \in ApiCreateArgs :
                          \E loaded \in LoadOutcomes(a.scenario_id),
                             text \in HTTPExceptionStr("404", "Scenario not found") :
                             StartSession(a.scenario_id, a.student_id, loaded, text,
                                          MaxApiSessions)
    \/ NoneInFlight /\ \E sid \in ApiSessIds : GetSession(sid)
    \/ NoneInFlight /\ \E sid \in ApiSessIds : AdvanceStepAbsent(sid)
    \/ \E sid \in ApiSessIds, body \in ApiPayloadBodies :
          BeginStep(1, sid, body, MaxApiRequests, TRUE)
    \/ HandlerStep(1)

ApiSpec == Init /\ [][ApiNext]_vars

\* ------------------------------------------------------------- ServiceSpec
\* the outputs handed to aggregate_evaluations
ServiceOutputs ==
    {EvaluatorResponse(VerdictCommunication), EvaluatorResponse(VerdictKnowledge),
     PlainDict(VerdictKnowledge)}

\* EvaluationService.aggregate_evaluations(evaluator_outputs, step)
AggregateEvaluations(evaluator_outputs, step) ==
    /\ svc_call' = [evaluator_outputs |-> evaluator_outputs, step |-> step,
                     result |-> aggregate_evaluations(evaluator_outputs, step)]
    /\ UNCHANGED <<c_batch, c_result, c_again, latticeVars, sessionVars>>

\* the evaluation layer: aggregate_evaluations calls, and /session/step
\* submissions received one after the other
ServiceNext ==
    \/ NoneInFlight /\ \E sc \in ScenarioIds, st \in StudentIds :
                          CreateSession(sc, st, MaxSeqSessions)
    \/ \E evaluator_outputs \in SeqsUpTo(ServiceOutputs, MaxServiceBatch) :
          AggregateEvaluations(evaluator_outputs, "history")
    \/ \E sid \in DOMAIN sessions, body \in ApiPayloadBodies :
          BeginStep(1, sid, body, MaxServiceRequests, TRUE)
    \/ HandlerStep(1)

ServiceSpec == Init /\ [][ServiceNext]_vars

\* ------------------------------------------------------------- properties
\* no request of session_step is between its first and last statement on sid
Quiescent(sid) == \A t \in Threads : InFlight(t) => threads[t].payload.session_id # sid

\* the stage a session is in after k advances from HISTORY
StageAfter(k) ==
    CASE k = 0 -> "history"
      [] k = 1 -> "assessment"
      [] k = 2 -> "cleaning"
      [] k = 3 -> "dressing"
      [] OTHER -> "completed"

ExpectedChain ==
    <<Return("Step.ASSESSMENT"), Return("Step.CLEANING"), Return("Step.DRESSING"),
      Return("Step.COMPLETED"), Raise("ValueError")>>

\* C2: successive next_step calls from HISTORY return ASSESSMENT, CLEANING,
\* DRESSING, COMPLETED in that order and the fifth raises ValueError;
\* next_step(COMPLETED) raises and never returns a stage, and next_step
\* never returns its own argument or HISTORY.
C2_SuccessorChain ==
    /\ Len(l_chain) <= 5
    /\ \A i \in 1..Len(l_chain) : l_chain[i] = ExpectedChain[i]
    /\ (l_next.kind # "none" /\ l_step = "Step.COMPLETED") => l_next = Raise("ValueError")
    /\ l_next.kind = "return" =>
          /\ l_step \in Step \ {"Step.COMPLETED"}
          /\ l_next.value \in Step \ {l_step, "Step.HISTORY"}

C2_Witness ==
    /\ Len(l_chain) = 5
    /\ l_chain[4] = Return("Step.COMPLETED")
    /\ l_chain[5].kind = "raise"

\* C3: a step that changes a session's stage moves it to the successor of
\* the stage before and leaves a log whose last entry is tagged with the
\* stage before: the append and the advance come together.
C3_AppendWithAdvance ==
    [][\A sid \in DOMAIN sessions :
         sessions'[sid].current_step # sessions[sid].current_step =>
            /\ sessions'[sid].current_step = NextOrNone(sessions[sid].current_step)
            /\ sessions'[sid].logs # <<>>
            /\ sessions'[sid].logs[Len(sessions'[sid].logs)].step = sessions[sid].current_step
            /\ Len(sessions'[sid].logs) > Len(sessions[sid].logs)
               \/ \E t \in Threads : /\ threads[t].pc = "advance"
                                     /\ threads'[t].pc = "idle"
                                     /\ threads[t].payload.session_id = sid]_vars

\* C4: advancing a session that is already COMPLETED changes nothing and is
\* no error: advance_step on it returns None and leaves the stage, and a
\* /session/step request that read COMPLETED never writes the stage and is
\* answered 200 without a next_step.
C4_AdvanceAtCompleted ==
    [][/\ \A sid \in DOMAIN sessions :
            (adv_calls'[sid] # adv_calls[sid] /\ sessions[sid].current_step = "completed") =>
                /\ sessions'[sid].current_step = "completed"
                /\ adv_result'.kind = "return"
                /\ adv_result'.value = "None"
       /\ \A t \in Threads :
            (threads[t].pc = "events" /\ threads[t].cur_step = "completed") =>
                /\ threads'[t].pc \in {"events", "idle"}
                /\ threads'[t].pc = "idle" =>
                      /\ response'.status = 200
                      /\ "next_step" \notin DOMAIN response'
                      /\ sessions'[threads[t].payload.session_id].current_step
                            = sessions[threads[t].payload.session_id].current_step]_vars

C4_Witness ==
    /\ adv_result.kind = "return"
    /\ adv_result.value = "None"
    /\ \E sid \in DOMAIN sessions :
          adv_calls[sid] > 0 /\ sessions[sid].current_step = "completed"
    /\ response.status = 200
    /\ response.current_step = "completed"
    /\ "next_step" \notin DOMAIN response

C6_Serialized ==
    \A sid \in DOMAIN sessions :
        (Quiescent(sid) /\ adv_calls[sid] = 0) =>
            /\ sessions[sid].current_step = StageAfter(completed[sid])
            /\ \A k \in 1..Len(sessions[sid].logs) :
                  sessions[sid].logs[k].step = StageAfter(k - 1)

AllowedPairs ==
    {<<"Step.HISTORY", "voice_transcript">>, <<"Step.HISTORY", "question_asked">>,
     <<"Step.ASSESSMENT", "mcq_answer">>, <<"Step.ASSESSMENT", "visual_assessment">>,
     <<"Step.CLEANING", "action_handwash">>, <<"Step.CLEANING", "action_clean">>,
     <<"Step.CLEANING", "pick_material">>,
     <<"Step.DRESSING", "action_dress">>, <<"Step.DRESSING", "action_secure_dressing">>}

\* C7: for a Step member, validate_action returns True exactly for the
\* identifiers of that step's vocabulary: True for (HISTORY,
\* voice_transcript) and (ASSESSMENT, mcq_answer), False for (CLEANING,
\* mcq_answer) and (HISTORY, visual_assessment), False for COMPLETED
\* whatever the identifier.
C7_ValidateAction ==
    (l_valid.kind # "none" /\ l_step \in Step) =>
        /\ l_valid.kind = "return"
        /\ l_valid.value <=> (<<l_step, l_event>> \in AllowedPairs)
        /\ (l_step = "Step.HISTORY" /\ l_event = "voice_transcript") => l_valid.value
        /\ (l_step = "Step.ASSESSMENT" /\ l_event = "mcq_answer") => l_valid.value
        /\ (l_step = "Step.CLEANING" /\ l_event = "mcq_answer") => ~l_valid.value
        /\ (l_step = "Step.HISTORY" /\ l_event = "visual_assessment") => ~l_valid.value
        /\ l_step = "Step.COMPLETED" => ~l_valid.value

C7_Witness ==
    /\ l_step = "Step.CLEANING"
    /\ l_event = "mcq_answer"
    /\ l_valid.kind = "return"
    /\ ~l_valid.value

KnownEvents == {p[2] : p \in AllowedPairs}

\* C8: validate_action always returns a boolean and never raises; for a
\* step that is not a Step member, and for an identifier in no vocabulary,
\* it returns False.
C8_ValidateActionTotal ==
    l_valid.kind # "none" =>
        /\ l_valid.kind = "return"
        /\ l_valid.value \in BOOLEAN
        /\ (l_step \notin Step \/ l_event \notin KnownEvents) => ~l_valid.value

C8_Witness ==
    /\ l_step = "history"
    /\ l_event = "voice_transcript"
    /\ l_valid.kind = "return"
    /\ ~l_valid.value

\* C9: coordinate of the empty batch returns the four keys final_score,
\* final_feedback, actions and confidences, with 0.0, "No evaluations
\* provided", an empty list and an empty map.
C9_EmptyBatchNeutral ==
    (c_batch = <<>> /\ c_result.kind # "none") =>
        /\ c_result.kind = "return"
        /\ DOMAIN c_result.value = {"final_score", "final_feedback", "actions", "confidences"}
        /\ c_result.value.final_score = 0
        /\ c_result.value.final_feedback = "No evaluations provided"
        /\ c_result.value.actions = <<>>
        /\ DOMAIN c_result.value.confidences = {}

\* the scores of a batch added up, a missing score counting 0.0
RECURSIVE ScoreTotal(_)
ScoreTotal(batch) ==
    IF batch = <<>> THEN 0
    ELSE (IF "score" \in DOMAIN Head(batch) THEN Head(batch).score.val ELSE 0)
         + ScoreTotal(Tail(batch))

Abs(x) == IF x < 0 THEN -x ELSE x

\* C10: for a non-empty batch coordinate returns, final_score is a hundredth
\* nearest to the plain mean of the scores (score total over batch length,
\* confidences playing no part): it is off the mean by at most 0.005.
C10_MeanRounded ==
    (c_result.kind = "return" /\ c_batch # <<>>) =>
        LET n == Len(c_batch)
        IN  2 * Abs(10 * n * c_result.value.final_score - ScoreTotal(c_batch)) <= 10 * n

C10_Witness ==
    /\ c_result.kind = "return"
    /\ Len(c_batch) = 2
    /\ c_batch[1] \in FullVerdicts
    /\ c_batch[2] \in FullVerdicts
    /\ c_batch[1].score.val = 0
    /\ c_batch[1].confidence = 500
    /\ c_batch[2].score.val = 1000
    /\ c_batch[2].confidence = 1000
    /\ c_result.value.final_score = 50

\* the agent identifier and the rationale of a verdict as coordinate reads
\* them: "unknown" and no rationale when the key is missing
AgentOf(ev) == Get(ev, "agent", "unknown")
RationaleOf(ev) == Get(ev, "rationale", "")

\* the non-empty rationales of a batch in input order, each after "[agent] "
RECURSIVE PrefixedRationales(_)
PrefixedRationales(batch) ==
    IF batch = <<>> THEN <<>>
    ELSE (IF RationaleOf(Head(batch)) # ""
          THEN <<"[" \o AgentOf(Head(batch)) \o "] " \o RationaleOf(Head(batch))>>
          ELSE <<>>)
         \o PrefixedRationales(Tail(batch))

\* p1 | p2 | ... | pn, built from the left
RECURSIVE BarJoined(_)
BarJoined(parts) ==
    IF Len(parts) = 1 THEN parts[1]
    ELSE BarJoined(SubSeq(parts, 1, Len(parts) - 1)) \o " | " \o parts[Len(parts)]

\* C11: for a non-empty batch coordinate returns, final_feedback is the
\* non-empty rationales in input order, each prefixed with "[agent] " and
\* joined with " | "; it is exactly "No feedback" when no verdict of the
\* batch carries a non-empty rationale.
C11_FeedbackJoined ==
    (c_result.kind = "return" /\ c_batch # <<>>) =>
        LET parts == PrefixedRationales(c_batch)
        IN  IF parts = <<>>
            THEN c_result.value.final_feedback = "No feedback"
            ELSE c_result.value.final_feedback = BarJoined(parts)

C11_Witness ==
    /\ c_result.kind = "return"
    /\ Len(c_batch) = 2
    /\ c_batch[1] \in FullVerdicts
    /\ c_batch[1].agent = "communication"
    /\ c_batch[1].rationale = "ok"
    /\ AgentOf(c_batch[2]) = "unknown"
    /\ c_result.value.final_feedback = "[communication] ok | [unknown] fine"

\* the suggested-action lists of a batch put end to end
RECURSIVE Flattened(_)
Flattened(batch) ==
    IF batch = <<>> THEN <<>>
    ELSE Flattened(SubSeq(batch, 1, Len(batch) - 1))
         \o Get(batch[Len(batch)], "suggested_actions", <<>>)

RECURSIVE ActionCount(_)
ActionCount(batch) ==
    IF batch = <<>> THEN 0
    ELSE Len(Get(Head(batch), "suggested_actions", <<>>)) + ActionCount(Tail(batch))

\* C12: for a non-empty batch coordinate returns, actions is every verdict's
\* suggested_actions list put end to end in input order, repeats included:
\* its length is the sum of the lists' lengths.
C12_ActionsConcatenated ==
    (c_result.kind = "return" /\ c_batch # <<>>) =>
        /\ c_result.value.actions = Flattened(c_batch)
        /\ Len(c_result.value.actions) = ActionCount(c_batch)

C12_Witness ==
    /\ c_result.kind = "return"
    /\ Len(c_batch) = 2
    /\ c_result.value.actions = <<"dry", "wash", "wash">>

\* C13: for a non-empty batch coordinate returns, confidences has exactly
\* the agent identifiers of the batch as keys, and each maps to the
\* confidence of the last verdict carrying that identifier.
C13_ConfidenceLastWins ==
    (c_result.kind = "return" /\ c_batch # <<>>) =>
        /\ DOMAIN c_result.value.confidences =
              {AgentOf(c_batch[i]) : i \in 1..Len(c_batch)}
        /\ \A i \in 1..Len(c_batch) :
              (\A j \in (i + 1)..Len(c_batch) : AgentOf(c_batch[j]) # AgentOf(c_batch[i])) =>
                  c_result.value.confidences[AgentOf(c_batch[i])]
                      = Get(c_batch[i], "confidence", 0)

C13_Witness ==
    /\ c_result.kind = "return"
    /\ Len(c_batch) = 2
    /\ c_batch[1] \in FullVerdicts
    /\ c_batch[2] \in FullVerdicts
    /\ c_batch[1].agent = c_batch[2].agent
    /\ c_batch[1].confidence = 500
    /\ c_batch[2].confidence = 1000
    /\ c_result.value.confidences = [a \in {c_batch[1].agent} |-> 1000]

C15_FreshSession ==
    [][Len(created') > Len(created) =>
          LET c == created'[Len(created')]
          IN  /\ \A i \in 1..Len(created) : created[i].session_id # c.session_id
              /\ c.session_id \in DOMAIN sessions'
              /\ sessions'[c.session_id].current_step = "history"
              /\ sessions'[c.session_id].logs = <<>>
              /\ sessions'[c.session_id].scenario_id = c.scenario_id
              /\ sessions'[c.session_id].student_id = c.student_id
              /\ \A sid \in DOMAIN sessions : sessions'[sid] = sessions[sid]]_vars

C15_Witness ==
    /\ Len(created) = 2
    /\ created[1].session_id # created[2].session_id
    /\ created[1].student_id = "stu_1"
    /\ created[2].student_id = "student_99"
    /\ sessions[created[1].session_id].current_step = "assessment"
    /\ sessions[created[2].session_id].student_id = "student_99"
    /\ sessions[created[2].session_id].current_step = "history"
    /\ sessions[created[2].session_id].logs = <<>>

\* the step made a session lookup that differs from the one before it
LastCallChanged ==
    \/ last_call'.op # last_call.op
    \/ last_call'.result # last_call.result
    \/ last_call'.arg # last_call.arg

\* what advance_step returns for a session the store holds, whatever its stage
FoundAdvanceOutcomes ==
    {advance_step([sid \in {SessId(1)} |->
                      [NewSession("scenario_1", "stu_1") EXCEPT !.current_step = StepValue(st)]],
                  SessId(1)).result : st \in Step}

\* C16: get_session, advance_step and /session/step, given an id the store
\* does not hold, leave the store as it is and report the absence in a way
\* no call on a held session answers: get_session gives None and not a
\* session, /session/step answers 404, and advance_step gives something it
\* gives for no held session, the None of a COMPLETED one included.
C16_AbsentReported ==
    [][(/\ LastCallChanged
        /\ last_call'.op \in {"get_session", "advance_step", "session_step"}
        /\ last_call'.arg \notin DOMAIN sessions) =>
          /\ sessions' = sessions
          /\ last_call'.result = "NoneType"
          /\ last_call'.op = "session_step" => response'.status = 404
          /\ last_call'.op = "advance_step" => adv_result' \notin FoundAdvanceOutcomes]_vars

\* C17: /session/start for a scenario the scenario source does not have is
\* answered with the scenario-not-found condition (404, "Scenario not
\* found"), not with a generic failure, and creates no session.
C17_ScenarioNotFound ==
    [][(/\ LastCallChanged
        /\ last_call'.op = "start_session"
        /\ last_call'.result = "NoneType") =>
          /\ response'.status = 404
          /\ response'.detail = "Scenario not found"
          /\ sessions' = sessions
          /\ created' = created]_vars

\* the batch holds an output that is no EvaluatorResponse
HasNonResponse(evaluator_outputs) ==
    \E i \in 1..Len(evaluator_outputs) : evaluator_outputs[i].class # "EvaluatorResponse"

\* the batch holds a verdict whose score is not a number
HasNonNumericScore(evaluations) ==
    \E i \in 1..Len(evaluations) : Get(evaluations[i], "score", Float(0)).type # "float"

OperatesOn(b) ==
    \/ \E t \in Threads : /\ threads'[t] # threads[t]
                           /\ \/ /\ threads[t].pc # "idle"
                                 /\ threads[t].payload.session_id = b
                              \/ /\ threads'[t].pc # "idle"
                                 /\ threads'[t].payload.session_id = b
    \/ \E c \in Creators : /\ creating[c].pc = "store"
                            /\ creating[c].session_id = b
                            /\ creating'[c].pc = "idle"

SuccessorPairs ==
    {<<"history", "assessment">>, <<"assessment", "cleaning">>,
     <<"cleaning", "dressing">>, <<"dressing", "completed">>}

\* C22: in every step of every execution a session's stage stays what it is
\* or moves to its immediate successor in the order HISTORY, ASSESSMENT,
\* CLEANING, DRESSING, COMPLETED: never backward, never past a stage, and
\* never away from COMPLETED.
C22_StageMonotone ==
    [][\A sid \in DOMAIN sessions :
          sid \in DOMAIN sessions' =>
             \/ sessions'[sid].current_step = sessions[sid].current_step
             \/ <<sessions[sid].current_step, sessions'[sid].current_step>>
                   \in SuccessorPairs]_vars

\* the sequence a is the beginning of the sequence b
IsPrefix(a, b) == Len(a) <= Len(b) /\ SubSeq(b, 1, Len(a)) = a

\* C23: a session's log is append-only. In every step of every execution
\* the log a session id had before the step is a prefix of the log it has
\* after it: no entry is modified, reordered or removed and the log never
\* gets shorter.
C23_LogAppendOnly ==
    [][\A sid \in DOMAIN sessions :
          /\ sid \in DOMAIN sessions'
          /\ IsPrefix(sessions[sid].logs, sessions'[sid].logs)]_vars

\* C24: session identifiers stay unique when create_session calls overlap.
\* In every reachable state of RaceSpec the identifiers returned by the
\* create_session calls that have returned are pairwise different, and the
\* store holds as many sessions as calls have returned: no call's session
\* replaced another's.
C24_UniqueWhenConcurrent ==
    /\ \A i, j \in 1..Len(created) :
          i # j => created[i].session_id # created[j].session_id
    /\ Cardinality(DOMAIN sessions) = Len(created)

\* what an aggregate of no verdicts holds: score 0.0, the "no evaluations"
\* feedback, no actions
IsNeutral(agg) ==
    /\ agg.final_score = 0
    /\ agg.final_feedback = "No evaluations provided"
    /\ agg.actions = <<>>

\* C25: an empty batch of evaluator outputs is not a failure at the
\* orchestration layer. An aggregate_evaluations call that was given no
\* outputs has returned, not raised, and returned the neutral aggregate; and
\* a /session/step request that was given no outputs gets the neutral
\* aggregate from coordinate and goes on to log it.
C25_EmptyBatchNotAFailure ==
    /\ (svc_call.result.kind # "none" /\ svc_call.evaluator_outputs = <<>>) =>
          /\ svc_call.result.kind = "return"
          /\ IsNeutral(svc_call.result.value)
    /\ \A t \in Threads :
          threads[t].payload.evaluator_outputs = <<>> =>
             /\ threads[t].pc = "coordinate" =>
                   coordinate(threads[t].payload.evaluator_outputs).kind = "return"
             /\ threads[t].pc \in {"events", "advance"} => IsNeutral(threads[t].agg)

\* C26: stage advancement does not depend on verdict content. In TwinSpec,
\* two sessions that have had the same number of stage submissions applied,
\* whatever the verdict batches were (scores, confidences, rationales, an
\* empty batch), are in the same stage and have logs of the same length:
\* they go through the same stages and log lengths, and at COMPLETED, where
\* there is no successor, both stay.
C26_ContentIndependent ==
    NoneInFlight =>
       \A a, b \in DOMAIN sessions :
          completed[a] = completed[b] =>
             /\ sessions[a].current_step = sessions[b].current_step
             /\ Len(sessions[a].logs) = Len(sessions[b].logs)

\* both runs took five submissions, the second with an empty batch among
\* them and a batch with verdicts among them, and both are COMPLETED
C26_Witness ==
    /\ DOMAIN sessions = {SessId(1), SessId(2)}
    /\ NoneInFlight
    /\ completed[SessId(1)] = 5
    /\ completed[SessId(2)] = 5
    /\ sessions[SessId(1)].current_step = "completed"
    /\ sessions[SessId(2)].current_step = "completed"
    /\ Len(sessions[SessId(2)].logs) = 5
    /\ sessions[SessId(2)].logs[1].evaluation.final_score = 0
    /\ sessions[SessId(2)].logs[2].evaluation.final_score = 50
    /\ sessions[SessId(2)].logs[5].evaluation.final_score = 0
    /\ sessions[SessId(1)].logs[1].evaluation.final_score = 50

====
